---- MODULE Spec2Model ----
(***************************************************************************)
(* Model of bandito/bandito.py: class Bandit, one run of the multi-armed   *)
(* bandit simulation.  One instance is modelled; its fields are the        *)
(* variables.  simulate() is split at its loop boundary (one action per    *)
(* loop iteration), so that the state at every turn boundary is visible.   *)
(* Real numbers are exact rationals <<n, d>> with d > 0, in lowest terms.  *)
(***************************************************************************)
EXTENDS Integers, Sequences, FiniteSets, TLC

\* ------------------------------------------------------------------ bounds
MaxArms == 2
MaxSteps == 2
MaxCalls == 2
MaxRedraws == 1

\* --------------------------------------------------------------- rationals
RECURSIVE GCD(_, _)
GCD(a, b) == IF b = 0 THEN a ELSE GCD(b, a % b)

Abs(n) == IF n < 0 THEN -n ELSE n

Norm(n, d) ==
    LET g == GCD(Abs(n), d) IN <<n \div g, d \div g>>

RAdd(p, q) == Norm(p[1] * q[2] + q[1] * p[2], p[2] * q[2])
RSub(p, q) == Norm(p[1] * q[2] - q[1] * p[2], p[2] * q[2])
RDivInt(p, k) == Norm(p[1], p[2] * k)
RLess(p, q) == p[1] * q[2] < q[1] * p[2]
\* the square of a fraction in lowest terms is in lowest terms
RSquare(p) == <<p[1] * p[1], p[2] * p[2]>>

Zero == <<0, 1>>
One == <<1, 1>>
Half == <<1, 2>>

\* the sum of the first k entries of s, added left to right
RECURSIVE RSumTo(_, _)
RSumTo(s, k) ==
    IF k = 0 THEN Zero
    ELSE IF k = 1 THEN s[1]
    ELSE RAdd(RSumTo(s, k - 1), s[k])

RSum(s) == RSumTo(s, Len(s))

RECURSIVE RMaxTo(_, _)
RMaxTo(s, k) ==
    IF k = 1 THEN s[1]
    ELSE LET m == RMaxTo(s, k - 1) IN IF RLess(m, s[k]) THEN s[k] ELSE m

RMax(s) == RMaxTo(s, Len(s))

RECURSIVE ISum(_)
ISum(s) == IF s = <<>> THEN 0 ELSE Head(s) + ISum(Tail(s))

\* range(k): the indices a Python range(k) runs over, 1-based here
Range(k) == IF k > 0 THEN k ELSE 0

\* ------------------------------------------------------------------- state
\* The fields of the instance; the values of the last turn inside simulate
\* (choice_probabilities, x, choice, and y, the value of the random.random()
\* call of line 105; choice = -1 while unassigned); pc and t, the
\* position in simulate; calls, steps, redraws count simulate calls, loop
\* iterations begun and payoffs changed by turbulence; err is the
\* exception the last simulate call ended with; ret is what the last accessor
\* call since the last simulate call returned.
VARIABLES
    arms, turns, turbulence, strategy_fxn,
    assetstock, complete, payoffs,
    tries, wins, beliefs,
    score, knowledge, opinion, probexplore,
    choice_probabilities, x, choice, y,
    pc, t, calls, steps, redraws, err, ret

config == <<arms, turns, turbulence, strategy_fxn>>
counters == <<tries, wins, assetstock>>
histories == <<score, knowledge, opinion, probexplore>>
locals == <<choice_probabilities, x, choice, y>>
fields == <<arms, turns, turbulence, strategy_fxn, assetstock, complete, payoffs,
            tries, wins, beliefs, score, knowledge, opinion, probexplore>>
vars == <<arms, turns, turbulence, strategy_fxn, assetstock, complete, payoffs,
          tries, wins, beliefs, score, knowledge, opinion, probexplore,
          choice_probabilities, x, choice, y,
          pc, t, calls, steps, redraws, err, ret>>

\* ---------------------------------------------------- inputs and policies
ArmCounts == -1 .. MaxArms
TurnCounts == -1 .. MaxSteps
TurbulenceValues == {0, 1}

\* payoff_fxn(): a random number in [0, 1]
PayoffValues == {<<1, 10>>, <<9, 10>>}

\* random.random() for the choice and for the win/loss draw
ChoiceDraws == {Zero, Half}
WinDraws == {<<1, 20>>, Half}

Vectors(n, S) == [1 .. n -> S]

\* strategy_fxn(beliefs, strategy): one probability per arm adding up to 1,
\* "all 0s with one 1, or some other distribution" (here the uniform one,
\* which is what softmax makes of equal beliefs)
OneHot(n) == {[i \in 1 .. n |-> IF i = k THEN One ELSE Zero] : k \in 1 .. n}
Uniform(n) == {[i \in 1 .. n |-> Norm(1, n)] : k \in 1 .. (IF n > 0 THEN 1 ELSE 0)}
Distributions(n) == OneHot(n) \cup Uniform(n)

\* a result that does not add up to 1 (nothing in simulate checks it)
Deficient(n) == {[i \in 1 .. n |-> IF i = 1 THEN Half ELSE Zero]}

StrategyOutputs(n) == Distributions(n) \cup Deficient(n)

\* a strategy_fxn that puts probability 1 on the first arm of highest belief
Greedy(b) ==
    [i \in 1 .. Len(b) |->
        IF /\ \A j \in 1 .. Len(b) : ~RLess(b[i], b[j])
           /\ \A j \in 1 .. (i - 1) : RLess(b[j], b[i])
        THEN One ELSE Zero]

\* the strategy_fxn passed to the constructor: "greedy", or "any", a function
\* of which only the set of its possible results is known
StrategyFunctions == {"any", "greedy"}

\* the strategy function called with the beliefs as they were at construction
StrategyOfFirstBeliefs(b) ==
    IF strategy_fxn = "greedy"
    THEN {Greedy([i \in 1 .. Len(b) |-> Half])}
    ELSE StrategyOutputs(Len(b))

\* line 98: self._strategy_fxn(self._beliefs, self._strategy) called with b
Strategy(b) ==
    IF strategy_fxn = "greedy" THEN {Greedy(b)} ELSE StrategyOutputs(Len(b))

\* turbulence_fxn(payoffs, payoff_fxn, turbulence): no turbulence leaves the
\* payoffs alone; otherwise every arm may have its payoff re-drawn
randomshock(p, level) ==
    IF level = 0 THEN {p} ELSE Vectors(Len(p), PayoffValues)

\* belief_fxn(beliefs, tries, wins): 2 trials with 1 win averaged in
simplebelief(b, tr, w) ==
    [i \in 1 .. Len(b) |-> Norm(w[i] + 1, tr[i] + 2)]

\* ---------------------------------------------------------- the loop body
\* running sums that leave out the entry itself
accumulate_exclusive(p) == [i \in 1 .. Len(p) |-> RSumTo(p, i - 1)]

\* itertools.accumulate
accumulate(p) == [i \in 1 .. Len(p) |-> RSumTo(p, i)]

\* bisect.bisect (bisect_right): 0-based insertion point after entries = v
RECURSIVE bisect_from(_, _, _, _)
bisect_from(a, v, lo, hi) ==
    IF lo < hi
    THEN LET mid == (lo + hi) \div 2 IN
         IF RLess(v, a[mid + 1])
         THEN bisect_from(a, v, lo, mid)
         ELSE bisect_from(a, v, mid + 1, hi)
    ELSE lo

\* bisect_left: the insertion point before entries equal to v
RECURSIVE bisect_left_from(_, _, _, _)
bisect_left_from(a, v, lo, hi) ==
    IF lo < hi
    THEN LET mid == (lo + hi) \div 2 IN
         IF RLess(a[mid + 1], v)
         THEN bisect_left_from(a, v, mid + 1, hi)
         ELSE bisect_left_from(a, v, lo, mid)
    ELSE lo

bisect_left(a, v) == bisect_left_from(a, v, 0, Len(a))

bisect(a, v) == bisect_from(a, v, 0, Len(a))

\* "= 1" written for "+= 1"
TriesAfterAssigned(tr, c) == [tr EXCEPT ![c + 1] = 1]

\* self._tries[choice] += 1
TriesAfter(tr, c) == [tr EXCEPT ![c + 1] = @ + 1]

\* random.random() < self._payoffs[choice]
Won(p, c, draw) == RLess(draw, p[c + 1])

\* the win counted on arm 0 instead of on the chosen arm
WinsAfterFirstArm(w, c, won) == IF won THEN [w EXCEPT ![1] = @ + 1] ELSE w

\* the win counted whatever the outcome
WinsAfterAlways(w, c, won) == [w EXCEPT ![c + 1] = @ + 1]

\* self._wins[choice] += 1 on a win
WinsAfter(w, c, won) == IF won THEN [w EXCEPT ![c + 1] = @ + 1] ELSE w

\* a loss that costs nothing
AssetAfterWinOnly(a, won) == IF won THEN a + 1 ELSE a

\* self._assetstock += 1 on a win, -= 1 otherwise
AssetAfter(a, won) == IF won THEN a + 1 ELSE a - 1

\* the list replaced by its newest entry instead of appended to
RecordLatest(h, v) == <<v>>

\* list.append
Record(h, v) == Append(h, v)

Knowledge(b, p, n) ==
    RSub(One, RSum([i \in 1 .. Range(n) |-> RSquare(RSub(b[i], p[i]))]))

Opinion(b, n) ==
    LET mean == RDivInt(RSum(b), n) IN
    RSum([i \in 1 .. Range(n) |-> RSquare(RSub(b[i], mean))])

ProbExplore(cp) == RSub(One, RMax(cp))

\* ------------------------------------------------------------ construction
Accessors == {"score", "knowledge", "opinion", "probexplore"}

\* no accessor has been called since the last simulate call
NoRet == [acc \in Accessors |-> [out |-> "nocall", val |-> 0]]


Init ==
    /\ arms \in ArmCounts
    /\ turns \in TurnCounts
    /\ turbulence \in TurbulenceValues
    /\ strategy_fxn \in StrategyFunctions
    /\ assetstock = 0
    /\ complete = FALSE
    /\ payoffs \in Vectors(Range(arms), PayoffValues)
    /\ tries = [i \in 1 .. Range(arms) |-> 0]
    /\ wins = [i \in 1 .. Range(arms) |-> 0]
    /\ beliefs = [i \in 1 .. Range(arms) |-> Half]
    /\ score = <<>>
    /\ knowledge = <<>>
    /\ opinion = <<>>
    /\ probexplore = <<>>
    /\ choice_probabilities = <<>>
    /\ x = Zero
    /\ choice = -1
    /\ y = Zero
    /\ pc = "idle"
    /\ t = 0
    /\ calls = 0
    /\ steps = 0
    /\ redraws = 0
    /\ err = "none"
    /\ ret = NoRet

\* ---------------------------------------------------------------- simulate
\* control leaves simulate (by return or by an exception): its locals are gone
Leave(e) ==
    /\ pc' = "idle"
    /\ err' = e
    /\ choice_probabilities' = <<>>
    /\ x' = Zero
    /\ choice' = -1
    /\ y' = Zero

\* the exception swallowed inside the loop, which goes on
RaiseSwallowed(e) ==
    /\ err' = e
    /\ UNCHANGED <<pc, locals>>

\* an exception propagates out of simulate: the loop is abandoned
Raise(e) == Leave(e)

\* range(self._turns - 1): the loop stops one turn short
LoopDoneEarly == t >= Range(turns) - 1

\* the loop has run range(self._turns) to its end
LoopDone == t >= Range(turns)

SimulateCall ==
    /\ pc = "idle"
    /\ calls < MaxCalls
    /\ steps + Range(turns) <= MaxSteps
    /\ pc' = "loop"
    /\ t' = 0
    /\ calls' = calls + 1
    /\ err' = "none"
    /\ ret' = NoRet
    /\ UNCHANGED <<config, assetstock, complete, payoffs, tries, wins, beliefs,
                   histories, locals, steps, redraws>>

InLoop == pc = "loop" /\ ~LoopDone

\* the arms whose payoff differs between p and q
Redrawn(p, q) == {i \in 1 .. Len(p) : q[i] # p[i]}

\* the first arm's payoff overwritten after turbulence_fxn returned
TurbulenceThenOverwrite(q) ==
    /\ redraws + Cardinality(Redrawn(payoffs, q)) <= MaxRedraws
    /\ q \in randomshock(payoffs, turbulence)
    /\ payoffs' = [i \in 1 .. Len(q) |-> IF i = 1 THEN <<1, 10>> ELSE q[i]]
    /\ redraws' = redraws + Cardinality(Redrawn(payoffs, q))

\* line 95: the payoffs turbulence_fxn returns in this turn
Turbulence(q) ==
    /\ redraws + Cardinality(Redrawn(payoffs, q)) <= MaxRedraws
    /\ q \in randomshock(payoffs, turbulence)
    /\ payoffs' = q
    /\ redraws' = redraws + Cardinality(Redrawn(payoffs, q))

\* the first arm chosen whatever the distribution and the draw
ChoiceFirstArm(cp, d) == 0

\* lines 99-101
Choice(cp, d) == bisect(accumulate(cp), d)

TurnTurbulenceRaises ==
    /\ InLoop
    /\ Raise("PolicyError")
    /\ steps' = steps + 1
    /\ UNCHANGED <<config, assetstock, complete, payoffs, tries, wins, beliefs,
                   histories, t, calls, redraws, ret>>

TurnStrategyRaises ==
    /\ InLoop
    /\ \E q \in randomshock(payoffs, turbulence) : Turbulence(q)
    /\ Raise("PolicyError")
    /\ steps' = steps + 1
    /\ UNCHANGED <<config, assetstock, complete, tries, wins, beliefs,
                   histories, t, calls, ret>>

\* self._tries[choice] with choice past the end of the list
TurnChoiceOutOfRange ==
    /\ InLoop
    /\ \E q \in randomshock(payoffs, turbulence) :
        /\ Turbulence(q)
        /\ \E cp \in Strategy(beliefs), d \in ChoiceDraws :
            Choice(cp, d) >= Len(tries)
    /\ Raise("IndexError")
    /\ steps' = steps + 1
    /\ UNCHANGED <<config, assetstock, complete, tries, wins, beliefs,
                   histories, t, calls, ret>>

\* the outcome counted without counting the try
OutcomeUntried(c, won) ==
    /\ tries' = tries
    /\ wins' = WinsAfter(wins, c, won)
    /\ assetstock' = AssetAfter(assetstock, won)

\* lines 104-109: arm c is tried, and wins or loses
Outcome(c, won) ==
    /\ tries' = TriesAfter(tries, c)
    /\ wins' = WinsAfter(wins, c, won)
    /\ assetstock' = AssetAfter(assetstock, won)

TurnBeliefRaises ==
    /\ InLoop
    /\ \E q \in randomshock(payoffs, turbulence) :
        /\ Turbulence(q)
        /\ \E cp \in Strategy(beliefs), d \in ChoiceDraws, w \in WinDraws :
            LET c == Choice(cp, d) IN
            /\ c < Len(tries)
            /\ Outcome(c, Won(q, c, w))
    /\ Raise("PolicyError")
    /\ steps' = steps + 1
    /\ UNCHANGED <<config, complete, beliefs, histories, t, calls, ret>>

\* one whole turn: turbulence_fxn returns q, strategy_fxn returns cp, the two
\* random.random() calls return d and w
Turn(q, cp, d, w) ==
    /\ InLoop
    /\ Turbulence(q)
    /\ choice_probabilities' = cp
    /\ x' = d
    /\ choice' = Choice(cp, d)
    /\ choice' < Len(tries)
    /\ y' = w
    /\ Outcome(choice', Won(q, choice', w))
    /\ beliefs' = simplebelief(beliefs, tries', wins')
    /\ score' = Record(score, assetstock')
    /\ knowledge' = Record(knowledge, Knowledge(beliefs', q, arms))
    /\ opinion' = Record(opinion, Opinion(beliefs', arms))
    /\ probexplore' = Record(probexplore, ProbExplore(cp))
    /\ t' = t + 1
    /\ steps' = steps + 1
    /\ UNCHANGED <<config, complete, pc, calls, err, ret>>

TurnCompletes ==
    /\ InLoop
    /\ \E q \in randomshock(payoffs, turbulence) :
        /\ Turbulence(q)
        /\ \E cp \in Strategy(beliefs), d \in ChoiceDraws, w \in WinDraws :
            Turn(q, cp, d, w)

SimulateReturn ==
    /\ pc = "loop"
    /\ LoopDone
    /\ complete' = TRUE
    /\ Leave("none")
    /\ UNCHANGED <<config, assetstock, payoffs, tries, wins, beliefs,
                   histories, t, calls, steps, redraws, ret>>


\* --------------------------------------------------------------- accessors
History(acc) ==
    CASE acc = "score" -> score
      [] acc = "knowledge" -> knowledge
      [] acc = "opinion" -> opinion
      [] acc = "probexplore" -> probexplore

\* h[-1]
Last(h) == h[Len(h)]

\* score(), knowledge(), opinion(), probexplore(): what the call gives back
Returned(acc) ==
    IF complete
    THEN IF Len(History(acc)) = 0
         THEN [out |-> "IndexError", val |-> 0]
         ELSE [out |-> "value", val |-> Last(History(acc))]
    ELSE [out |-> "None", val |-> 0]

\* the caller reads the four metrics; ret keeps what each call gave back
ReadMetrics ==
    /\ pc = "idle"
    /\ ret = NoRet
    /\ ret' = [acc \in Accessors |-> Returned(acc)]
    /\ UNCHANGED <<fields, locals, pc, t, calls, steps, redraws, err>>

\* ------------------------------------------------------------ specification
Next ==
    \/ SimulateCall
    \/ TurnTurbulenceRaises
    \/ TurnStrategyRaises
    \/ TurnChoiceOutOfRange
    \/ TurnBeliefRaises
    \/ TurnCompletes
    \/ SimulateReturn
    \/ ReadMetrics

Spec == Init /\ [][Next]_vars

\* ================================================================== claims
ValidConfig == arms >= 1 /\ turns >= 0
FirstRun == calls <= 1 /\ err = "none"
HistoryLengths == {Len(score), Len(knowledge), Len(opinion), Len(probexplore)}
Arms == DOMAIN tries

\* C1: on a fresh instance, at every turn boundary of the first simulate call
\* (and after it), the tries of all arms add up to the number of turns executed.
C1_TriesSumIsTurns == FirstRun => ISum(tries) = t

C1_Witness ==
    /\ calls = 1 /\ err = "none" /\ complete /\ pc = "idle"
    /\ t = 2 /\ tries = <<1, 1>>

\* C2: at every turn boundary of the first simulate call the four histories
\* have the same length, the number of turns executed; after the full run of
\* turn_count = N >= 0 turns that length is N.
C2_HistoryLengths ==
    FirstRun =>
        /\ HistoryLengths = {t}
        /\ (complete /\ turns >= 0) => HistoryLengths = {turns}

C2_Witness ==
    /\ calls = 1 /\ err = "none" /\ complete /\ turns = 2
    /\ Len(score) = 2 /\ Len(probexplore) = 2

\* C3: for every arm tries >= wins >= 0 in every state, and no step lowers
\* either counter.
C3_Counters ==
    /\ \A a \in Arms : tries[a] >= wins[a] /\ wins[a] >= 0
    /\ [][\A a \in Arms :
            /\ tries'[a] >= tries[a]
            /\ wins'[a] >= wins[a]
            /\ tries'[a] >= wins'[a]
            /\ wins'[a] >= 0]_vars

C3_Witness == tries = <<2, 0>> /\ wins = <<1, 0>> /\ assetstock = 0

\* the 0-based index of the first arm whose cumulative choice probability
\* meets or exceeds / strictly exceeds the draw d
FirstMeeting(cp, d) ==
    LET cumdist == accumulate(cp) IN
    Cardinality({i \in 1 .. Len(cp) : RLess(cumdist[i], d)})
FirstExceeding(cp, d) ==
    LET cumdist == accumulate(cp) IN
    Cardinality({i \in 1 .. Len(cp) : ~RLess(d, cumdist[i])})

\* simulate has just completed a turn
TurnDone == pc = "loop" /\ choice # -1

\* the scenario: the only turn of a fresh two-armed instance, payoffs
\* [0.9, 0.1], choice probabilities [0.5, 0.5], draws 0.5 and 0.05
Scenario ==
    /\ arms = 2 /\ turns = 1 /\ calls = 1 /\ steps = 1 /\ TurnDone
    /\ payoffs = <<(<<9, 10>>), (<<1, 10>>)>> /\ redraws = 0
    /\ choice_probabilities = <<Half, Half>>
    /\ x = Half /\ y = <<1, 20>>

\* C4 as stated: every turn selects the first arm whose cumulative probability
\* meets or exceeds the draw, and the scenario (draw 0.5 on [0.5, 0.5], win draw
\* 0.05, payoffs [0.9, 0.1]) selects arm 0 and ends with tries = [1, 0],
\* wins = [1, 0], asset_stock = 1, beliefs = [2/3, 0.5].
C4_AsStated ==
    /\ TurnDone => choice = FirstMeeting(choice_probabilities, x)
    /\ Scenario =>
        /\ choice = 0
        /\ tries = <<1, 0>> /\ wins = <<1, 0>> /\ assetstock = 1
        /\ beliefs = <<(<<2, 3>>), Half>>

\* C4 (amended): every turn selects the first arm whose cumulative probability
\* strictly exceeds the draw (a draw equal to a cumulative boundary selects the
\* arm that starts there), and the scenario selects arm 1 and ends with
\* tries = [0, 1], wins = [0, 1], asset_stock = 1, beliefs = [0.5, 2/3].
C4_FirstExceeding ==
    /\ TurnDone => choice = FirstExceeding(choice_probabilities, x)
    /\ Scenario =>
        /\ choice = 1
        /\ tries = <<0, 1>> /\ wins = <<0, 1>> /\ assetstock = 1
        /\ beliefs = <<Half, (<<2, 3>>)>>

C4_Witness ==
    /\ Scenario
    /\ choice = 1 /\ tries = <<0, 1>> /\ wins = <<0, 1>>

\* C5 as stated: every accessor call returns None while completed is false and
\* the last element of its own history once completed is true.
C5_AccessorResults ==
    ValidConfig =>
        \A acc \in Accessors :
            ret[acc].out # "nocall" =>
                IF complete
                THEN ret[acc].out = "value" /\ ret[acc].val = Last(History(acc))
                ELSE ret[acc].out = "None"

\* the accessors change no field of the instance
AccessorsReadOnly == [][ret' # ret /\ ret' # NoRet => UNCHANGED fields]_vars

\* C6 as stated: after simulate with turn_count = 0 the histories are empty,
\* completed is true, and every accessor returns the unavailable result
\* instead of failing.
C6_ZeroTurns ==
    (ValidConfig /\ turns = 0 /\ calls >= 1 /\ pc = "idle" /\ err = "none") =>
        /\ complete
        /\ HistoryLengths = {0}
        /\ \A acc \in Accessors : ret[acc].out \in {"nocall", "None"}

\* C7 as stated: an instance with arm_count <= 0 or turn_count < 0 is never
\* run and never marked completed.
C7_ConfigurationError == ~ValidConfig => (pc # "loop" /\ ~complete)

\* C8: completed is false at construction, turns true only where a simulate
\* call has run all its turns, and never turns false again.
C8_Completed ==
    /\ ~complete
    /\ [][/\ complete => complete'
          /\ (~complete /\ complete') =>
                pc = "loop" /\ t = Range(turns) /\ err = "none"]_vars

C8_Witness == complete /\ calls = 2 /\ err = "PolicyError" /\ pc = "idle"

\* every loop iteration begun so far has run to its end (none was aborted)
NoTurnAborted == steps = Len(score)

\* C9 as stated (on instances none of whose turns was aborted): whenever
\* completed is true every history has length turn_count and the tries add up
\* to turn_count, also after simulate is called again.
C9_SingleRun ==
    (ValidConfig /\ complete /\ NoTurnAborted) =>
        HistoryLengths = {turns} /\ ISum(tries) = turns

\* C10: when a policy function raises during the first run, the run stops in
\* that turn (no later turn begins), completed stays false, and every accessor
\* called afterwards returns None.
C10_PolicyError ==
    (calls = 1 /\ err = "PolicyError") =>
        /\ pc = "idle"
        /\ ~complete
        /\ steps = t + 1
        /\ HistoryLengths = {t}
        /\ \A acc \in Accessors : ret[acc].out \in {"nocall", "None"}

C10_Witness ==
    /\ calls = 1 /\ err = "PolicyError" /\ t = 1 /\ ISum(tries) = 2
    /\ ret["score"].out = "None" /\ ret["probexplore"].out = "None"

\* a step that changes payoffs is a loop iteration assigning what
\* turbulence_fxn returned for the current payoffs
PayoffsWrittenByTurbulence ==
    payoffs' # payoffs =>
        /\ InLoop
        /\ steps' = steps + 1
        /\ payoffs' \in randomshock(payoffs, turbulence)

\* C11: with turbulence = 0 no step changes payoffs, so after every turn and
\* after the run they are the payoffs drawn at construction; and whatever the
\* turbulence, payoffs are written only by the assignment of turbulence_fxn's
\* result at the start of a turn.
C11_PayoffsFrame ==
    [][/\ turbulence = 0 => payoffs' = payoffs
       /\ PayoffsWrittenByTurbulence]_vars

C11_Witness ==
    /\ turbulence = 0 /\ turns = 2 /\ complete /\ steps = 2 /\ redraws = 0
    /\ payoffs = <<(<<9, 10>>), (<<1, 10>>)>> /\ wins = <<1, 0>>

\* C12: under the belief policy (wins + 1) / (tries + 2), in every state an arm
\* that was never selected has belief exactly 0.5, and the belief of a selected
\* arm lies strictly between 0 and 1; at a turn boundary the beliefs are the
\* policy's value for the current counters.
C12_Beliefs ==
    /\ \A a \in Arms :
        /\ tries[a] = 0 => beliefs[a] = Half
        /\ tries[a] > 0 => RLess(Zero, beliefs[a]) /\ RLess(beliefs[a], One)
    /\ TurnDone =>
        \A a \in Arms : beliefs[a] = Norm(wins[a] + 1, tries[a] + 2)

C12_Witness ==
    /\ TurnDone /\ t = 2
    /\ tries = <<2, 0>> /\ wins = <<2, 0>>
    /\ beliefs = <<(<<3, 4>>), Half>>

\* what strategy_fxn is to return: one non-negative probability per arm,
\* adding up to 1
WellFormed(cp) ==
    /\ Len(cp) = arms
    /\ \A i \in 1 .. Len(cp) : ~RLess(cp[i], Zero)
    /\ RSum(cp) = One

\* C13 as stated: a malformed policy result is surfaced as an error in the
\* same turn, so the turn that has just appended to the histories had
\* well-formed choice probabilities.
C13_MalformedDetected ==
    (ValidConfig /\ TurnDone) => WellFormed(choice_probabilities)

\* C14: a turn runs turbulence, strategy, choice draw, outcome, belief update
\* and the four appends in this order, and the next turn starts after them.
\* In the state a turn leaves, the newest knowledge and opinion entries are
\* computed from the beliefs after the update and the payoffs after the turn's
\* turbulence, the newest explore probability is 1 minus the maximum of the
\* turn's choice probabilities, and the newest score is the asset stock; in the
\* step of a turn, the choice probabilities are the strategy's result for the
\* beliefs before the update, the win is decided against the payoffs after
\* the turbulence, and each history grows by one entry.
C14_TurnOrder ==
    /\ [](TurnDone =>
            /\ HistoryLengths = {Len(score)}
            /\ Last(score) = assetstock
            /\ Last(knowledge) = Knowledge(beliefs, payoffs, arms)
            /\ Last(opinion) = Opinion(beliefs, arms)
            /\ Last(probexplore) = RSub(One, RMax(choice_probabilities))
            /\ beliefs = simplebelief(beliefs, tries, wins))
    /\ [][t' = t + 1 =>
            /\ strategy_fxn = "greedy" => choice_probabilities' = Greedy(beliefs)
            /\ payoffs' \in randomshock(payoffs, turbulence)
            /\ tries'[choice' + 1] = tries[choice' + 1] + 1
            /\ assetstock' - assetstock =
                    (IF RLess(y', payoffs'[choice' + 1]) THEN 1 ELSE -1)
            /\ HistoryLengths' = {Len(score) + 1}
            /\ HistoryLengths = {Len(score)}]_vars

C14_Witness ==
    /\ strategy_fxn = "greedy" /\ turbulence = 1 /\ redraws = 1
    /\ TurnDone /\ t = 2
    /\ choice_probabilities = <<Zero, One>> /\ tries = <<1, 1>>
    /\ beliefs = <<(<<1, 3>>), (<<2, 3>>)>>
    /\ payoffs = <<(<<1, 10>>), (<<9, 10>>)>>

\* the score before entry i of the score history (0 before the first)
ScoreBefore(i) == IF i = 1 THEN 0 ELSE score[i - 1]

\* C15: on an instance none of whose turns was aborted, every score entry is
\* the cumulative asset stock: the first is +1 or -1, consecutive entries
\* differ by exactly 1, entry t (0-based) lies within -(t + 1) .. t + 1, and
\* the newest entry is the asset stock.
C15_ScoreHistory ==
    NoTurnAborted =>
        /\ \A i \in 1 .. Len(score) :
            /\ Abs(score[i] - ScoreBefore(i)) = 1
            /\ Abs(score[i]) <= i
        /\ Len(score) > 0 => Last(score) = assetstock
        /\ Len(score) = 0 => assetstock = 0

C15_Witness ==
    /\ NoTurnAborted /\ score = <<1, 2>> /\ assetstock = 2 /\ calls = 1

\* C16: in every state asset_stock = 2 * sum(wins) - sum(tries), wins minus
\* losses as counted per arm; a step changes the win counters exactly when it
\* raises asset_stock, by one win on the arm whose try it counts, and a step
\* that counts a try moves asset_stock by one.
C16_AssetIdentity ==
    /\ [](assetstock = 2 * ISum(wins) - ISum(tries))
    /\ [][/\ wins' # wins <=> assetstock' = assetstock + 1
          /\ wins' # wins =>
                \E a \in Arms :
                    /\ tries' = [tries EXCEPT ![a] = @ + 1]
                    /\ wins' = [wins EXCEPT ![a] = @ + 1]
          /\ tries' # tries =>
                /\ \E a \in Arms : tries' = [tries EXCEPT ![a] = @ + 1]
                /\ assetstock' - assetstock \in {1, -1}
          /\ tries' = tries => assetstock' = assetstock]_vars

C16_Witness ==
    /\ tries = <<1, 1>> /\ wins = <<0, 1>> /\ assetstock = 0 /\ TurnDone

\* the lookups self._tries[c], self._wins[c], self._payoffs[c] are in range
InRange(c) ==
    /\ c \in 0 .. arms - 1
    /\ c < Len(tries) /\ c < Len(wins) /\ c < Len(payoffs)

\* C17: wherever simulate stands in its loop, every well-formed result of the
\* strategy function (arm_count non-negative probabilities adding up to 1)
\* and every draw in [0, 1) give a choice in 0 .. arm_count - 1; the turn
\* that has completed with well-formed probabilities chose an index in range;
\* and with a strategy function whose results are all well-formed, simulate
\* never ends with an IndexError.
C17_ChoiceInRange ==
    /\ pc = "loop" =>
        \A cp \in Strategy(beliefs) :
            WellFormed(cp) => \A d \in ChoiceDraws : InRange(Choice(cp, d))
    /\ (TurnDone /\ WellFormed(choice_probabilities)) => InRange(choice)
    /\ (arms >= 1 /\ strategy_fxn = "greedy") => err # "IndexError"

C17_Witness ==
    /\ TurnDone /\ t = 2 /\ arms = 2
    /\ choice_probabilities = <<Half, Half>> /\ x = Half /\ choice = 1
    /\ tries = <<1, 1>>

\* C18: the arm chosen in a completed turn has a choice probability above 0,
\* whatever the draw (0 and a draw on a cumulative boundary included), and when
\* the choice probabilities are all 0s with a single 1 it is the arm with the 1.
C18_ZeroProbabilityNeverChosen ==
    TurnDone =>
        /\ RLess(Zero, choice_probabilities[choice + 1])
        /\ choice_probabilities \in OneHot(arms) =>
                choice_probabilities[choice + 1] = One

C18_Witness ==
    /\ TurnDone /\ t = 1 /\ arms = 2
    /\ choice_probabilities = <<Zero, One>> /\ x = Zero /\ choice = 1

====
